---- MODULE Spec2Model ----
(***************************************************************************)
(* Beatly backend: the Express request handlers (auth, video, comment)     *)
(* over the three MongoDB collections (users, videos, comments) and the    *)
(* Azure blob container.                                                   *)
(*                                                                         *)
(* Each request is a process.  A step of a process is one database or      *)
(* blob-store operation together with the handler's local code that runs   *)
(* around it, up to the next operation: these are the points at which the  *)
(* Node event loop interleaves requests (every await in the handlers that  *)
(* touches shared state is a database or storage call).                    *)
(*                                                                         *)
(* The handlers are grouped by the state they share: SpecAuth (signup and  *)
(* login on a freshly seeded database) and SpecLikes, SpecManyLikes,       *)
(* SpecViews, SpecViewsLikes, SpecList, SpecDelete, SpecComments,          *)
(* SpecUpload, SpecUploadLike and SpecGate (the video and comment          *)
(* endpoints on a database in service).  SpecTags applies the upload's     *)
(* tag validation to tag arrays of every length up to MaxTags + 1.         *)
(***************************************************************************)
EXTENDS Integers, Sequences, FiniteSets, TLC

(* ------------------------------ bounds -------------------------------- *)
\* requests served at the same time
NumProcs == 2
\* requests received in one behaviour
MaxRequests == 3
\* requests received in one behaviour of SpecGate
MaxGateRequests == 2
\* requests received in one behaviour of SpecUpload and SpecUploadLike
MaxUploadRequests == 2
\* requests received in one behaviour of SpecViewsLikes
MaxViewsLikesRequests == 2
\* requests received in one behaviour of SpecComments
MaxCommentRequests == 2
\* requests received in one behaviour of SpecManyLikes
MaxLikeRequests == 4

Procs == 1..NumProcs

(* ------------------------------ inputs -------------------------------- *)
AdminEmail == "admin@beatly.com"
AdminPassword == "admin123"
\* "" is a missing (falsy) body field
Names == {"", "Ann"}
Emails == {"", AdminEmail, "a@x.io", "b@x.io"}
Passwords == {"", AdminPassword, "pw1"}
\* the role field a signup body may carry ("" when absent)
BodyRoles == {"", "admin"}
\* req.params.id: the _id of a video, of no video, or a malformed id
BadId == -1
IdParams == {BadId, 1, 2, 3}
\* req.query.tag (<<>> when absent) and req.query.status ("" when absent)
TagParams == {<<>>, <<"r">>}
StatusParams == {"", "pending", "approved"}

VARIABLES
  users,          \* User collection: sequence of documents, _id = index
  videos,         \* Video collection: function from _id to document
  comments,       \* Comment collection: set of documents
  blobs,          \* names of the objects in the blob container
  nextVideoId,    \* the next Video _id
  nextCommentId,  \* the next Comment _id
  nextBlobId,     \* the next uuid of a blob name
  procs,          \* the requests being served, one record per process
  response,       \* the HTTP response sent by the last step, if any
  budget          \* number of requests that may still be received

store == <<users, videos, comments, blobs, nextVideoId, nextCommentId, nextBlobId>>
vars == <<users, videos, comments, blobs, nextVideoId, nextCommentId, nextBlobId,
          procs, response, budget>>

(* ------------------------------ values -------------------------------- *)
NoUser == [id |-> 0, role |-> ""]
NoDoc == [none |-> TRUE]
NoArg == [none |-> TRUE]
Idle == [op |-> "idle", pc |-> "idle", tok |-> "", user |-> NoUser,
         vid |-> 0, doc |-> NoDoc, arg |-> NoArg]
NoResponse == [op |-> "none", status |-> 0, error |-> "", tok |-> "",
               user |-> NoUser, vid |-> 0, doc |-> NoDoc, arg |-> NoArg,
               data |-> NoArg]

\* res.status(s).json({ error, ...data }) for the request in record r
Reply(r, s, e, data) ==
  [op |-> r.op, status |-> s, error |-> e, tok |-> r.tok, user |-> r.user,
   vid |-> r.vid, doc |-> r.doc, arg |-> r.arg, data |-> data]

\* the request in process p is answered
Send(p, resp) ==
  /\ response' = resp
  /\ procs' = [procs EXCEPT ![p] = Idle]

\* the request in process p goes on as record r
Continue(p, r) ==
  /\ procs' = [procs EXCEPT ![p] = r]
  /\ response' = NoResponse

\* a request is received: it is served by the first free process
Accept(p) ==
  /\ procs[p].op = "idle"
  /\ \A q \in 1..(p - 1) : procs[q].op # "idle"
  /\ budget > 0

At(p, op, pc) == procs[p].op = op /\ procs[p].pc = pc

\* the request record a handler starts from
Request(op, tok, user, vid, arg) ==
  [op |-> op, pc |-> "start", tok |-> tok, user |-> user, vid |-> vid,
   doc |-> NoDoc, arg |-> arg]

(* ------------------------------ User ---------------------------------- *)
\* bcrypt.hash(password, salt): the stored value is never the plaintext
Hash(pw) == <<"bcrypt", pw>>
\* bcrypt.compare(password, user.password)
Compare(pw, hashed) == hashed = Hash(pw)

\* User.findOne({ email }): the _id of a matching document, 0 when none
FindOneByEmail(email) ==
  IF \E i \in 1..Len(users) : users[i].email = email
  THEN CHOOSE i \in 1..Len(users) : users[i].email = email
  ELSE 0

\* the unique index on User.email: an insert of a second document with the
\* same email is rejected (E11000)
UniqueEmailOk(email) == \A i \in 1..Len(users) : users[i].email # email

\* jwt.sign({ id, name, email, role }, JWT_SECRET, { expiresIn: '30d' })
SignToken(id) ==
  [id |-> id, name |-> users[id].name, email |-> users[id].email,
   role |-> users[id].role]

\* the document createAdmin seeds
Admin == [name |-> "Admin", email |-> AdminEmail,
          password |-> Hash(AdminPassword), role |-> "admin"]

(* ------------------------------ register ------------------------------ *)
\* variant of RegisterRole: the role of the body is stored when it has one
RegisterRoleFromBody(bodyRole) ==
  IF bodyRole = "" THEN "consumer" ELSE bodyRole

\* the role register stores, whatever the body carries
RegisterRole(bodyRole) == "consumer"

\* the answer to a signup whose email is already stored
RegisterExistsReply(r) == Reply(r, 400, "User already exists", NoArg)

\* validation and User.findOne({ email })
register(p) ==
  /\ Accept(p)
  /\ budget' = budget - 1
  /\ UNCHANGED store
  /\ \E name \in Names, email \in Emails, password \in Passwords,
        role \in BodyRoles :
       LET r == Request("register", "", NoUser, 0,
                        [name |-> name, email |-> email,
                         password |-> password, role |-> role])
       IN IF name = "" \/ email = "" \/ password = ""
          THEN Send(p, Reply(r, 400, "Missing required fields", NoArg))
          ELSE IF FindOneByEmail(email) # 0
          THEN Send(p, RegisterExistsReply(r))
          ELSE Continue(p, [r EXCEPT !.pc = "save"])

\* hash, newUser.save(), sign, respond
registerSave(p) ==
  /\ At(p, "register", "save")
  /\ LET a == procs[p].arg
         newUser == [name |-> a.name, email |-> a.email,
                     password |-> Hash(a.password),
                     role |-> RegisterRole(a.role)]
         id == Len(users) + 1
     IN IF UniqueEmailOk(a.email)
        THEN /\ users' = Append(users, newUser)
             /\ Send(p, Reply(procs[p], 201, "",
                   [id |-> id, name |-> newUser.name,
                    email |-> newUser.email, role |-> newUser.role,
                    token |-> [id |-> id, name |-> newUser.name,
                               email |-> newUser.email,
                               role |-> newUser.role]]))
        ELSE /\ users' = users
             /\ Send(p, Reply(procs[p], 500, "Registration failed", NoArg))
  /\ UNCHANGED <<videos, comments, blobs, nextVideoId, nextCommentId,
                 nextBlobId, budget>>

(* ------------------------------ login --------------------------------- *)
\* variant of LoginNoUserReply: an answer that tells an unknown email from a
\* wrong password
LoginNoUserReplyNotFound(r) == Reply(r, 404, "User not found", NoArg)

\* the answer to a login whose email matches no stored user
LoginNoUserReply(r) == Reply(r, 401, "Authentication failed",
                             [details |-> "Invalid email or password"])

\* the answer to a login whose password does not match
LoginBadPasswordReply(r) == Reply(r, 401, "Authentication failed",
                                  [details |-> "Invalid email or password"])

\* the answer login gives to the request in record r
LoginReply(r) ==
  LET email == r.arg.email
      password == r.arg.password
      id == FindOneByEmail(email)
  IN IF email = "" \/ password = ""
     THEN Reply(r, 400, "Missing credentials", NoArg)
     ELSE IF id = 0 THEN LoginNoUserReply(r)
     ELSE IF ~Compare(password, users[id].password)
     THEN LoginBadPasswordReply(r)
     ELSE Reply(r, 200, "",
                [id |-> id, name |-> users[id].name,
                 email |-> users[id].email, role |-> users[id].role,
                 token |-> SignToken(id)])

\* validation, User.findOne({ email }), bcrypt.compare, sign, respond: the
\* handler writes nothing, so its reads are taken as one step
login(p) ==
  /\ Accept(p)
  /\ budget' = budget - 1
  /\ UNCHANGED store
  /\ \E email \in Emails, password \in Passwords :
       LET r == Request("login", "", NoUser, 0,
                        [email |-> email, password |-> password])
       IN Send(p, LoginReply(r))

(* ------------------------------ middleware ---------------------------- *)
\* the bearer tokens a request may carry: none, one that fails jwt.verify,
\* or a verified one signed for a user _id; _id 0 is that of a user whose
\* document is no longer stored
Tokens ==
  {[kind |-> "none", sub |-> 0], [kind |-> "invalid", sub |-> 0]}
  \cup {[kind |-> "valid", sub |-> i] : i \in 0..Len(users)}

\* User.findById(decoded.id).select('-password'): null when no document
FindUserById(id) ==
  IF id \in 1..Len(users) THEN [id |-> id, role |-> users[id].role]
  ELSE NoUser

\* req.user after authenticate
TokenUser(tok) == IF tok.kind = "valid" THEN FindUserById(tok.sub) ELSE NoUser

\* authenticate: the 401 it answers, or NoResponse when it calls next()
authenticate(r, tok) ==
  IF tok.kind = "none"
  THEN Reply(r, 401, "Access denied. No token provided.", NoArg)
  ELSE IF tok.kind = "invalid"
  THEN Reply(r, 401, "Invalid or expired token.", NoArg)
  ELSE NoResponse

\* variant of authorizeRoles: every role passes
authorizeRolesAnyRole(r, roles) ==
  IF r.user = NoUser
  THEN Reply(r, 500, "Internal Server Error", NoArg)
  ELSE NoResponse

\* authorizeRoles(...roles): the answer it gives, or NoResponse when it calls
\* next().  req.user.role on a null req.user throws; Express hands the error
\* to the global error handler, which answers 500
authorizeRoles(r, roles) ==
  IF r.user = NoUser
  THEN Reply(r, 500, "Internal Server Error", NoArg)
  ELSE IF r.user.role \notin roles
  THEN Reply(r, 403, "Access denied. Unauthorized role.", NoArg)
  ELSE NoResponse

\* the roles each route passes to authorizeRoles ({} : no authorizeRoles)
RouteRoles(op) ==
  CASE op \in {"uploadVideo", "deleteVideo", "getVideoStats",
               "getVideoAnalytics"} -> {"admin"}
    [] op = "likeVideo" -> {"consumer"}
    [] OTHER -> {}

\* the middleware chain of a route: the answer of the first middleware that
\* answers, or NoResponse when the handler is reached
Middleware(r, tok) ==
  IF authenticate(r, tok) # NoResponse THEN authenticate(r, tok)
  ELSE IF RouteRoles(r.op) # {} THEN authorizeRoles(r, RouteRoles(r.op))
  ELSE NoResponse

\* mongoose.Types.ObjectId.isValid(id)
IsValidId(id) == id # BadId

(* ------------------------------ text ---------------------------------- *)
\* a string is the sequence of its characters
Text(n) == [i \in 1..n |-> "a"]

\* String.prototype.toLowerCase on one character
LowerChar(c) == CASE c = "M" -> "m" [] c = "R" -> "r" [] OTHER -> c

\* String.prototype.toLowerCase
ToLowerCase(s) == [i \in 1..Len(s) |-> LowerChar(s[i])]

RECURSIVE TrimStart(_)
TrimStart(s) == IF s # <<>> /\ Head(s) = " " THEN TrimStart(Tail(s)) ELSE s

RECURSIVE TrimEnd(_)
TrimEnd(s) ==
  IF s # <<>> /\ s[Len(s)] = " " THEN TrimEnd(SubSeq(s, 1, Len(s) - 1)) ELSE s

\* String.prototype.trim
Trim(s) == TrimEnd(TrimStart(s))

RECURSIVE Split(_)
\* String.prototype.split(',')
Split(s) ==
  IF \A i \in 1..Len(s) : s[i] # "," THEN <<s>>
  ELSE LET k == CHOOSE i \in 1..Len(s) :
                  s[i] = "," /\ \A j \in 1..(i - 1) : s[j] # ","
       IN <<SubSeq(s, 1, k - 1)>> \o Split(SubSeq(s, k + 1, Len(s)))

\* [...new Set(seq)]: the first occurrence of each element, in order
Unique(seq) ==
  LET keep == {i \in 1..Len(seq) : \A j \in 1..(i - 1) : seq[j] # seq[i]}
      RECURSIVE Pick(_)
      Pick(i) == IF i > Len(seq) THEN <<>>
                 ELSE IF i \in keep THEN <<seq[i]>> \o Pick(i + 1)
                 ELSE Pick(i + 1)
  IN Pick(1)

NonEmpty(s) == s # <<>>

(* ------------------------------ Video --------------------------------- *)
Statuses == {"pending", "approved", "rejected"}

\* Video.findById(id): the stored document with its _id, NoDoc when none
FindVideoById(id) ==
  IF id \in DOMAIN videos THEN [id |-> id] @@ videos[id] ELSE NoDoc

\* MongooseArray.indexOf(userId): 0 stands for JavaScript's -1
IndexOf(seq, x) ==
  IF \E i \in 1..Len(seq) : seq[i] = x
  THEN CHOOSE i \in 1..Len(seq) : seq[i] = x /\ \A j \in 1..(i - 1) : seq[j] # x
  ELSE 0

\* Array.prototype.splice(index, 1)
Splice(seq, i) == [j \in 1..(Len(seq) - 1) |-> IF j < i THEN seq[j] ELSE seq[j + 1]]

\* toggleLike on the loaded document, before this.save(): the new field
\* values and the update Mongoose will send for likedBy.  A push is sent as
\* $push (the version is incremented, not compared); a splice is sent as $set
\* of the whole array under the condition that __v is the loaded version
toggleLike(doc, userId) ==
  IF IndexOf(doc.likedBy, userId) > 0
  THEN [doc EXCEPT !.likedBy = Splice(doc.likedBy, IndexOf(doc.likedBy, userId)),
                   !.likes = doc.likes - 1] @@ [atomic |-> "$set", pushed |-> userId]
  ELSE [doc EXCEPT !.likedBy = Append(doc.likedBy, userId),
                   !.likes = doc.likes + 1] @@ [atomic |-> "$push", pushed |-> userId]

\* whether the update this.save() sends finds its document
SaveMatches(doc) ==
  /\ doc.id \in DOMAIN videos
  /\ doc.atomic = "$set" => videos[doc.id].v = doc.v

\* tag.trim().toLowerCase()
SanitizeTag(tag) == ToLowerCase(Trim(tag))

\* tags.map(tag => tag.trim().toLowerCase())
MapSanitizeTag(seq) == [i \in 1..Len(seq) |-> SanitizeTag(seq[i])]

\* variant of PreSaveTags: duplicates are kept
PreSaveTagsKeepAll(tags) == MapSanitizeTag(tags)

\* VideoSchema.pre('save'): tags trimmed, lowercased, made unique
PreSaveTags(tags) == Unique(MapSanitizeTag(tags))

\* variant of SaveLike: the loaded document is written back whole
SaveLikeWholeDocument(doc) ==
  [videos EXCEPT ![doc.id] =
     [f \in DOMAIN @ |-> IF f = "v" THEN @.v + 1 ELSE doc[f]]]

\* the stored collection after the update this.save() sends for a toggled
\* document: $set likes, $push or $set likedBy, $inc __v, and $set tags when
\* the pre('save') hook changed the loaded tags
SaveLike(doc) ==
  [videos EXCEPT ![doc.id] =
     [@ EXCEPT !.likes = doc.likes,
               !.likedBy = IF doc.atomic = "$push"
                           THEN Append(@, doc.pushed)
                           ELSE doc.likedBy,
               !.tags = IF PreSaveTags(doc.tags) = doc.tags THEN @
                        ELSE PreSaveTags(doc.tags),
               !.v = @ + 1]]

\* variant of IncViews: the counter is not written
IncViewsNone(id) == videos

\* Video.findByIdAndUpdate(id, { $inc: { views: 1 } })
IncViews(id) ==
  IF id \in DOMAIN videos
  THEN [videos EXCEPT ![id] = [@ EXCEPT !.views = @ + 1]]
  ELSE videos

\* Comment.find({ video: id })
CommentsOf(id) == {c \in comments : c.video = id}

(* ------------------------------ getVideos ----------------------------- *)
\* variant of ListQuery: the status filter of the request is used for every
\* role
ListQueryAsGiven(role, tag, status) == [status |-> status, tags |-> tag]

\* the query getVideos builds ("", <<>> : the field is not in the query)
ListQuery(role, tag, status) ==
  [status |-> IF role = "admin" THEN status ELSE "approved", tags |-> tag]

\* Video.find(query): the matching documents
FindVideos(query) ==
  {[id |-> id, status |-> videos[id].status] : id \in
     {i \in DOMAIN videos :
        /\ query.status = "" \/ videos[i].status = query.status
        /\ query.tags = <<>> \/ \E k \in 1..Len(videos[i].tags) :
                                 videos[i].tags[k] = query.tags}}

getVideos(p) ==
  /\ Accept(p)
  /\ budget' = budget - 1
  /\ UNCHANGED store
  /\ \E tok \in Tokens, tag \in TagParams, status \in StatusParams :
       LET r == Request("getVideos", tok.kind, TokenUser(tok), 0,
                        [tag |-> tag, status |-> status])
       IN IF Middleware(r, tok) # NoResponse THEN Send(p, Middleware(r, tok))
          ELSE IF r.user = NoUser
          THEN Send(p, Reply(r, 500, "Failed to retrieve videos", NoArg))
          ELSE Continue(p, [r EXCEPT !.pc = "find"])

getVideosFind(p) ==
  /\ At(p, "getVideos", "find")
  /\ UNCHANGED <<store, budget>>
  /\ LET r == procs[p]
         q == ListQuery(r.user.role, r.arg.tag, r.arg.status)
     IN Continue(p, [r EXCEPT !.pc = "count", !.doc = [videos |-> FindVideos(q)]])

getVideosCount(p) ==
  /\ At(p, "getVideos", "count")
  /\ UNCHANGED <<store, budget>>
  /\ LET r == procs[p]
         q == ListQuery(r.user.role, r.arg.tag, r.arg.status)
     IN Send(p, Reply(r, 200, "",
                      [videos |-> r.doc.videos,
                       total |-> Cardinality(FindVideos(q))]))

(* ------------------------------ getVideoById -------------------------- *)
\* variant of NotAvailable: no video is refused
NotAvailableNever(role, status) == FALSE

\* whether getVideoById refuses the loaded video to the caller
NotAvailable(role, status) == role = "consumer" /\ status # "approved"

getVideoById(p) ==
  /\ Accept(p)
  /\ budget' = budget - 1
  /\ UNCHANGED store
  /\ \E tok \in Tokens, id \in IdParams :
       LET r == Request("getVideoById", tok.kind, TokenUser(tok), id, NoArg)
       IN IF Middleware(r, tok) # NoResponse THEN Send(p, Middleware(r, tok))
          ELSE IF ~IsValidId(id)
          THEN Send(p, Reply(r, 400, "Invalid video ID", NoArg))
          ELSE Continue(p, [r EXCEPT !.pc = "find"])

getVideoByIdFind(p) ==
  /\ At(p, "getVideoById", "find")
  /\ UNCHANGED <<store, budget>>
  /\ LET video == FindVideoById(procs[p].vid)
         r == [procs[p] EXCEPT !.doc = video]
     IN IF video = NoDoc
        THEN Send(p, Reply(r, 404, "Video not found", NoArg))
        ELSE IF r.user = NoUser
        THEN Send(p, Reply(r, 500, "Failed to retrieve video", NoArg))
        ELSE IF NotAvailable(r.user.role, video.status)
        THEN Send(p, Reply(r, 403, "Video not available", NoArg))
        ELSE IF video.status = "approved"
        THEN Continue(p, [r EXCEPT !.pc = "inc"])
        ELSE Continue(p, [r EXCEPT !.pc = "comments"])

getVideoByIdInc(p) ==
  /\ At(p, "getVideoById", "inc")
  /\ videos' = IncViews(procs[p].vid)
  /\ Continue(p, [procs[p] EXCEPT !.pc = "comments"])
  /\ UNCHANGED <<users, comments, blobs, nextVideoId, nextCommentId,
                 nextBlobId, budget>>

getVideoByIdComments(p) ==
  /\ At(p, "getVideoById", "comments")
  /\ UNCHANGED <<store, budget>>
  /\ Send(p, Reply(procs[p], 200, "",
                   [video |-> procs[p].doc,
                    comments |-> CommentsOf(procs[p].vid)]))

(* ------------------------------ likeVideo ----------------------------- *)
likeVideo(p) ==
  /\ Accept(p)
  /\ budget' = budget - 1
  /\ UNCHANGED store
  /\ \E tok \in Tokens, id \in IdParams :
       LET r == Request("likeVideo", tok.kind, TokenUser(tok), id, NoArg)
       IN IF Middleware(r, tok) # NoResponse THEN Send(p, Middleware(r, tok))
          ELSE Continue(p, [r EXCEPT !.pc = "find"])

likeVideoFind(p) ==
  /\ At(p, "likeVideo", "find")
  /\ UNCHANGED <<store, budget>>
  /\ LET r == procs[p]
         video == FindVideoById(r.vid)
     IN IF ~IsValidId(r.vid)
        THEN Send(p, Reply(r, 500, "Failed to like video", NoArg))
        ELSE IF video = NoDoc
        THEN Send(p, Reply(r, 404, "Video not found", NoArg))
        ELSE IF r.user.role # "consumer"
        THEN Send(p, Reply(r, 403, "Not authorized to like videos", NoArg))
        ELSE Continue(p, [r EXCEPT !.pc = "save",
                                   !.doc = toggleLike(video, r.user.id)])

likeVideoSave(p) ==
  /\ At(p, "likeVideo", "save")
  /\ LET r == procs[p]
     IN IF SaveMatches(r.doc)
        THEN /\ videos' = SaveLike(r.doc)
             /\ Send(p, Reply(r, 200, "", [likes |-> r.doc.likes]))
        ELSE /\ videos' = videos
             /\ Send(p, Reply(r, 500, "Failed to like video", NoArg))
  /\ UNCHANGED <<users, comments, blobs, nextVideoId, nextCommentId,
                 nextBlobId, budget>>

(* ------------------------------ deleteVideo --------------------------- *)
\* video.videoUrl and video.thumbnailUrl as deleteVideo reads them: the
\* schema's paths are url and thumbnail, so a loaded document has neither
\* property and both reads give undefined (here <<>>)
DocProperty(doc, name) ==
  IF name \in DOMAIN doc THEN doc[name] ELSE <<>>

\* the blobs deleteVideo asks the container to delete
BlobsToDelete(doc) ==
  (IF DocProperty(doc, "videoUrl") # <<>>
   THEN {DocProperty(doc, "videoUrl")} ELSE {})
  \cup (IF DocProperty(doc, "thumbnailUrl") # <<>>
        THEN {DocProperty(doc, "thumbnailUrl")} ELSE {})

\* Comment.deleteMany({ video: id })
DeleteManyComments(id) == {c \in comments : c.video # id}

\* Video.deleteOne({ _id: id })
DeleteOneVideo(id) == [i \in DOMAIN videos \ {id} |-> videos[i]]

deleteVideo(p) ==
  /\ Accept(p)
  /\ budget' = budget - 1
  /\ UNCHANGED store
  /\ \E tok \in Tokens, id \in IdParams :
       LET r == Request("deleteVideo", tok.kind, TokenUser(tok), id, NoArg)
       IN IF Middleware(r, tok) # NoResponse THEN Send(p, Middleware(r, tok))
          ELSE Continue(p, [r EXCEPT !.pc = "find"])

deleteVideoFind(p) ==
  /\ At(p, "deleteVideo", "find")
  /\ UNCHANGED <<store, budget>>
  /\ LET r == procs[p]
         video == FindVideoById(r.vid)
     IN IF ~IsValidId(r.vid)
        THEN Send(p, Reply(r, 500, "Failed to delete video", NoArg))
        ELSE IF video = NoDoc
        THEN Send(p, Reply(r, 404, "Video not found", NoArg))
        ELSE IF r.user.role # "admin"
        THEN Send(p, Reply(r, 403, "Not authorized to delete videos", NoArg))
        ELSE Continue(p, [r EXCEPT !.pc = "deleteMany", !.doc = video])

deleteVideoComments(p) ==
  /\ At(p, "deleteVideo", "deleteMany")
  /\ comments' = DeleteManyComments(procs[p].doc.id)
  /\ Continue(p, [procs[p] EXCEPT !.pc = "deleteOne"])
  /\ UNCHANGED <<users, videos, blobs, nextVideoId, nextCommentId,
                 nextBlobId, budget>>

\* Video.deleteOne, the blob deletions and the answer
deleteVideoRecord(p) ==
  /\ At(p, "deleteVideo", "deleteOne")
  /\ videos' = DeleteOneVideo(procs[p].doc.id)
  /\ blobs' = blobs \ BlobsToDelete(procs[p].doc)
  /\ Send(p, Reply(procs[p], 200, "", NoArg))
  /\ UNCHANGED <<users, comments, nextVideoId, nextCommentId, nextBlobId,
                 budget>>

(* ------------------------------ addComment ---------------------------- *)
addComment(p) ==
  /\ Accept(p)
  /\ budget' = budget - 1
  /\ UNCHANGED store
  /\ \E tok \in Tokens, id \in IdParams :
       LET r == Request("addComment", tok.kind, TokenUser(tok), id, NoArg)
       IN IF Middleware(r, tok) # NoResponse THEN Send(p, Middleware(r, tok))
          ELSE Continue(p, [r EXCEPT !.pc = "find"])

addCommentFind(p) ==
  /\ At(p, "addComment", "find")
  /\ UNCHANGED <<store, budget>>
  /\ LET r == procs[p]
     IN IF ~IsValidId(r.vid)
        THEN Send(p, Reply(r, 500, "Failed to add comment", NoArg))
        ELSE IF FindVideoById(r.vid) = NoDoc
        THEN Send(p, Reply(r, 404, "Video not found", NoArg))
        ELSE IF r.user = NoUser
        THEN Send(p, Reply(r, 500, "Failed to add comment", NoArg))
        ELSE Continue(p, [r EXCEPT !.pc = "save"])

addCommentSave(p) ==
  /\ At(p, "addComment", "save")
  /\ comments' = comments \cup {[id |-> nextCommentId, video |-> procs[p].vid,
                                 user |-> procs[p].user.id]}
  /\ nextCommentId' = nextCommentId + 1
  /\ Send(p, Reply(procs[p], 201, "", [id |-> nextCommentId]))
  /\ UNCHANGED <<users, videos, blobs, nextVideoId, nextBlobId, budget>>

(* ------------------------------ deleteComment ------------------------- *)
\* deleteComment is exported by the comment controller and mounted on no
\* route: it is taken as called with req.user a stored user and
\* req.params.commentId any id
CommentIdParams == {BadId, 1, 2, 3}

\* Comment.findById(commentId): the stored comment, NoDoc when none
FindCommentById(id) ==
  IF \E c \in comments : c.id = id
  THEN CHOOSE c \in comments : c.id = id
  ELSE NoDoc

\* variant of MayDeleteComment: every caller may delete
MayDeleteCommentAnyone(comment, user) == TRUE

\* the caller is the comment's owner or an admin
MayDeleteComment(comment, user) ==
  comment.user = user.id \/ user.role = "admin"

deleteComment(p) ==
  /\ Accept(p)
  /\ budget' = budget - 1
  /\ UNCHANGED store
  /\ \E i \in 1..Len(users), id \in CommentIdParams :
       Continue(p, [Request("deleteComment", "valid", FindUserById(i), 0,
                            [commentId |-> id]) EXCEPT !.pc = "find"])

deleteCommentFind(p) ==
  /\ At(p, "deleteComment", "find")
  /\ UNCHANGED <<store, budget>>
  /\ LET r == procs[p]
         comment == FindCommentById(r.arg.commentId)
     IN IF ~IsValidId(r.arg.commentId)
        THEN Send(p, Reply(r, 500, "Failed to delete comment", NoArg))
        ELSE IF comment = NoDoc
        THEN Send(p, Reply(r, 404, "Comment not found", NoArg))
        ELSE IF ~MayDeleteComment(comment, r.user)
        THEN Send(p, Reply([r EXCEPT !.doc = comment], 403,
                           "Not authorized to delete this comment", NoArg))
        ELSE Continue(p, [r EXCEPT !.pc = "remove", !.doc = comment])

\* comment.remove() and the answer.  remove() is a document method that
\* Mongoose has up to version 6 only; where it is missing the call throws
\* and the catch answers 500
deleteCommentRemove(p) ==
  /\ At(p, "deleteComment", "remove")
  /\ \E hasRemove \in BOOLEAN :
       IF hasRemove
       THEN /\ comments' = {c \in comments : c.id # procs[p].doc.id}
            /\ Send(p, Reply(procs[p], 200, "", NoArg))
       ELSE /\ comments' = comments
            /\ Send(p, Reply(procs[p], 500, "Failed to delete comment", NoArg))
  /\ UNCHANGED <<users, videos, blobs, nextVideoId, nextCommentId,
                 nextBlobId, budget>>

(* ------------------------------ analytics ----------------------------- *)
getVideoStats(p) ==
  /\ Accept(p)
  /\ budget' = budget - 1
  /\ UNCHANGED store
  /\ \E tok \in Tokens, id \in IdParams :
       LET r == Request("getVideoStats", tok.kind, TokenUser(tok), id, NoArg)
       IN IF Middleware(r, tok) # NoResponse THEN Send(p, Middleware(r, tok))
          ELSE IF ~IsValidId(id)
          THEN Send(p, Reply(r, 400, "Invalid video ID", NoArg))
          ELSE Continue(p, [r EXCEPT !.pc = "aggregate"])

getVideoStatsAggregate(p) ==
  /\ At(p, "getVideoStats", "aggregate")
  /\ UNCHANGED <<store, budget>>
  /\ LET r == procs[p]
         video == FindVideoById(r.vid)
     IN IF video = NoDoc
        THEN Send(p, Reply(r, 404, "Video not found", NoArg))
        ELSE Send(p, Reply(r, 200, "",
                           [views |-> video.views, likes |-> video.likes,
                            comments |-> CommentsOf(r.vid)]))

RECURSIVE Sum(_, _)
\* $sum of field f over the documents with _id in ids
Sum(ids, f) ==
  IF ids = {} THEN 0
  ELSE LET i == CHOOSE x \in ids : TRUE
       IN videos[i][f] + Sum(ids \ {i}, f)

getVideoAnalytics(p) ==
  /\ Accept(p)
  /\ budget' = budget - 1
  /\ UNCHANGED store
  /\ \E tok \in Tokens, status \in StatusParams :
       LET r == Request("getVideoAnalytics", tok.kind, TokenUser(tok), 0,
                        [status |-> status])
       IN IF Middleware(r, tok) # NoResponse THEN Send(p, Middleware(r, tok))
          ELSE Continue(p, [r EXCEPT !.pc = "aggregate"])

\* the two aggregations and the count: reads only, taken as one read
getVideoAnalyticsAggregate(p) ==
  /\ At(p, "getVideoAnalytics", "aggregate")
  /\ UNCHANGED <<store, budget>>
  /\ LET r == procs[p]
         ids == {i \in DOMAIN videos :
                   r.arg.status = "" \/ videos[i].status = r.arg.status}
     IN Send(p, Reply(r, 200, "",
                      [totalVideos |-> Cardinality(ids),
                       totalViews |-> Sum(ids, "views"),
                       totalLikes |-> Sum(ids, "likes"),
                       totalComments |->
                         Cardinality({c \in comments : c.video \in ids})]))

(* ------------------------------ uploadVideo --------------------------- *)
MinTitle == 3
MaxTitle == 100
MinDescription == 10
MaxDescription == 500
MaxTags == 10

\* tags.map(trim, lowercase).filter(non-empty) of a tags input: a missing
\* input (kind "none"), one string or an array of strings
SanitizedTags(tagsInput) ==
  SelectSeq(MapSanitizeTag(
                IF tagsInput.kind = "array" THEN tagsInput.val
                ELSE Split(tagsInput.val)),
            NonEmpty)

\* the message validateAndSanitizeTags throws, "" when it returns
TagsError(tagsInput) ==
  IF tagsInput.kind = "none" \/ (tagsInput.kind = "string" /\ tagsInput.val = <<>>)
  THEN "Tags are required"
  ELSE IF Len(SanitizedTags(tagsInput)) = 0
  THEN "At least one valid tag is required"
  ELSE IF Len(SanitizedTags(tagsInput)) > MaxTags
  THEN "Maximum of 10 tags allowed"
  ELSE ""

\* what validateAndSanitizeTags returns
validateAndSanitizeTags(tagsInput) == Unique(SanitizedTags(tagsInput))

\* the 400 uploadVideo answers to the body, "" when the body passes
BodyError(title, description, tags) ==
  IF title = <<>> THEN "Title is required"
  ELSE IF Len(title) < MinTitle \/ Len(title) > MaxTitle
  THEN "Title must be between 3 and 100 characters"
  ELSE IF description = <<>> THEN "Description is required"
  ELSE IF Len(description) < MinDescription \/ Len(description) > MaxDescription
  THEN "Description must be between 10 and 500 characters"
  ELSE TagsError(tags)

\* the schema's validation of a new document at save(): required, trim,
\* minlength and maxlength of title and description, the tags validator
SchemaValid(doc) ==
  /\ Len(doc.title) >= MinTitle /\ Len(doc.title) <= MaxTitle
  /\ Len(doc.description) >= MinDescription
  /\ Len(doc.description) <= MaxDescription
  /\ doc.url # <<>>
  /\ Len(doc.tags) > 0 /\ Len(doc.tags) <= MaxTags

\* new Video({...}): the schema's setters (trim) and defaults
NewVideo(title, description, url, thumbnail, tags, role) ==
  [title |-> Trim(title), description |-> Trim(description), url |-> url,
   thumbnail |-> thumbnail, tags |-> tags,
   status |-> IF role = "admin" THEN "approved" ELSE "pending",
   views |-> 0, likes |-> 0, likedBy |-> <<>>, v |-> 0]

\* the bodies and files an upload request may carry
Titles == {<<>>, Text(3), <<" ", "a", " ">>}
Descriptions == {Text(10)}
TagInputs == {[kind |-> "none", val |-> <<>>],
              [kind |-> "string", val |-> <<"M", ",", "m">>]}
Files == {[video |-> FALSE, thumbnail |-> FALSE],
          [video |-> TRUE, thumbnail |-> FALSE],
          [video |-> TRUE, thumbnail |-> TRUE]}

uploadVideo(p) ==
  /\ Accept(p)
  /\ budget' = budget - 1
  /\ UNCHANGED store
  /\ \E tok \in Tokens, title \in Titles, description \in Descriptions,
        tags \in TagInputs, files \in Files :
       LET r == Request("uploadVideo", tok.kind, TokenUser(tok), 0,
                        [title |-> title, description |-> description,
                         tags |-> tags, files |-> files])
       IN IF Middleware(r, tok) # NoResponse THEN Send(p, Middleware(r, tok))
          ELSE IF BodyError(title, description, tags) # ""
          THEN Send(p, Reply(r, 400, BodyError(title, description, tags), NoArg))
          ELSE IF r.user.role # "admin"
          THEN Send(p, Reply(r, 403, "Not authorized to upload videos", NoArg))
          ELSE IF ~files.video
          THEN Send(p, Reply(r, 400, "Video file is required", NoArg))
          ELSE Continue(p, [r EXCEPT !.pc = "video",
                                     !.arg.tags = validateAndSanitizeTags(tags)])

\* uploadBufferToAzure(videoFile.buffer, 'videos', ...)
uploadVideoBlob(p) ==
  /\ At(p, "uploadVideo", "video")
  /\ blobs' = blobs \cup {<<"videos", nextBlobId>>}
  /\ nextBlobId' = nextBlobId + 1
  /\ Continue(p, [procs[p] EXCEPT !.pc = "thumbnail",
                                  !.doc = [url |-> <<"videos", nextBlobId>>]])
  /\ UNCHANGED <<users, videos, comments, nextVideoId, nextCommentId, budget>>

\* variant of uploadThumbnail: a failed derivation fails the upload
uploadThumbnailOrFail(p) ==
  /\ At(p, "uploadVideo", "thumbnail")
  /\ \E derived \in BOOLEAN :
       IF procs[p].arg.files.thumbnail \/ derived
       THEN /\ blobs' = blobs \cup {<<"thumbnails", nextBlobId>>}
            /\ nextBlobId' = nextBlobId + 1
            /\ Continue(p, [procs[p] EXCEPT !.pc = "save",
                   !.doc = [url |-> procs[p].doc.url,
                            thumbnail |-> <<"thumbnails", nextBlobId>>]])
       ELSE /\ UNCHANGED <<blobs, nextBlobId>>
            /\ Send(p, Reply(procs[p], 500, "Video upload failed", NoArg))
  /\ UNCHANGED <<users, videos, comments, nextVideoId, nextCommentId, budget>>

\* the provided thumbnail is uploaded, or one is derived and uploaded; a
\* failed derivation leaves thumbnailUrl null (here <<>>)
uploadThumbnail(p) ==
  /\ At(p, "uploadVideo", "thumbnail")
  /\ \E derived \in BOOLEAN :
       IF procs[p].arg.files.thumbnail \/ derived
       THEN /\ blobs' = blobs \cup {<<"thumbnails", nextBlobId>>}
            /\ nextBlobId' = nextBlobId + 1
            /\ Continue(p, [procs[p] EXCEPT !.pc = "save",
                   !.doc = [url |-> procs[p].doc.url,
                            thumbnail |-> <<"thumbnails", nextBlobId>>]])
       ELSE /\ UNCHANGED <<blobs, nextBlobId>>
            /\ Continue(p, [procs[p] EXCEPT !.pc = "save",
                   !.doc = [url |-> procs[p].doc.url, thumbnail |-> <<>>]])
  /\ UNCHANGED <<users, videos, comments, nextVideoId, nextCommentId, budget>>

\* video.save() and the answer
uploadVideoSave(p) ==
  /\ At(p, "uploadVideo", "save")
  /\ LET r == procs[p]
         video == NewVideo(r.arg.title, r.arg.description, r.doc.url,
                           r.doc.thumbnail, r.arg.tags, r.user.role)
     IN IF SchemaValid(video)
        THEN /\ videos' = videos @@
                  (nextVideoId :> [video EXCEPT !.tags = PreSaveTags(video.tags)])
             /\ nextVideoId' = nextVideoId + 1
             /\ Send(p, Reply([r EXCEPT !.vid = nextVideoId], 201, "",
                     [thumbnail |-> video.thumbnail, status |-> video.status,
                      tags |-> PreSaveTags(video.tags)]))
        ELSE /\ UNCHANGED <<videos, nextVideoId>>
             /\ Send(p, Reply(r, 500, "Video upload failed", NoArg))
  /\ UNCHANGED <<users, comments, blobs, nextCommentId, nextBlobId, budget>>

(* ------------------------------ tag validation ------------------------ *)
\* the tag validation of uploadVideo applied to req.body.tags alone: the 400
\* of the catch, or the sanitized tags the handler goes on with
validateTags(p) ==
  /\ At(p, "validateTags", "start")
  /\ UNCHANGED <<store, budget>>
  /\ LET r == procs[p]
     IN IF TagsError(r.arg.tags) # ""
        THEN Send(p, Reply(r, 400, TagsError(r.arg.tags), NoArg))
        ELSE Send(p, Reply(r, 200, "",
                           [tags |-> validateAndSanitizeTags(r.arg.tags)]))

\* the tags a request body may carry, as characters
TagChars == {"m", "M", ",", " "}
TagStrings == {<<>>, <<" ">>, <<"m">>, <<"M">>, <<" ", "m">>, <<"r">>}
\* n copies of one tag, and n different tags
SameTags(n) == [i \in 1..n |-> <<"m">>]
DistinctTags(n) == [i \in 1..n |-> Text(i)]

\* req.body.tags: absent, one string, or an array of strings
TagCases ==
  {[kind |-> "none", val |-> <<>>]}
  \cup {[kind |-> "string", val |-> v] :
          v \in UNION {[1..n -> TagChars] : n \in 0..3}}
  \cup {[kind |-> "array", val |-> v] :
          v \in UNION {[1..n -> TagStrings] : n \in 0..2}}
  \cup {[kind |-> "array", val |-> v] :
          v \in {SameTags(MaxTags), SameTags(MaxTags + 1),
                  DistinctTags(MaxTags), DistinctTags(MaxTags + 1),
                  DistinctTags(MaxTags) \o <<Text(1)>>}}

(* ------------------------------ states -------------------------------- *)
\* the database after createAdmin on an empty database
InitFresh(requests) ==
  /\ users = <<Admin>>
  /\ videos = <<>>
  /\ comments = {}
  /\ blobs = {}
  /\ nextVideoId = 1
  /\ nextCommentId = 1
  /\ nextBlobId = 1
  /\ procs = [p \in Procs |-> Idle]
  /\ response = NoResponse
  /\ budget = requests

NextAuth ==
  \/ \E p \in Procs : register(p)
  \/ \E p \in Procs : registerSave(p)
  \/ \E p \in Procs : login(p)

SpecAuth == InitFresh(MaxRequests) /\ [][NextAuth]_vars

\* a consumer as register stores it
Consumer(name, email, password) ==
  [name |-> name, email |-> email, password |-> Hash(password),
   role |-> RegisterRole("")]

\* a video document as the schema stores it: counters at their defaults
SeedVideo(n, status, tags, thumbnail) ==
  [NewVideo(Text(4), Text(12), <<"videos", n>>, thumbnail, tags, "admin")
     EXCEPT !.status = status]

\* a database in service: the admin, two consumers who have signed up, one
\* approved and one pending video (the schema's default status), and a
\* comment on each
InitServing(requests) ==
  /\ users = <<Admin, Consumer("Ann", "a@x.io", "pw1"),
               Consumer("Bob", "b@x.io", "pw1")>>
  /\ videos = (1 :> SeedVideo(1, "approved", <<<<"m">>>>, <<"thumbnails", 2>>))
            @@ (2 :> SeedVideo(3, "pending", <<<<"m">>, <<"r">>>>, <<>>))
  /\ comments = {[id |-> 1, video |-> 1, user |-> 2],
                 [id |-> 2, video |-> 2, user |-> 1]}
  /\ blobs = {<<"videos", 1>>, <<"thumbnails", 2>>, <<"videos", 3>>}
  /\ nextVideoId = 3
  /\ nextCommentId = 3
  /\ nextBlobId = 4
  /\ procs = [p \in Procs |-> Idle]
  /\ response = NoResponse
  /\ budget = requests

NextLikes ==
  \/ \E p \in Procs : likeVideo(p)
  \/ \E p \in Procs : likeVideoFind(p)
  \/ \E p \in Procs : likeVideoSave(p)

SpecLikes == InitServing(MaxRequests) /\ [][NextLikes]_vars

\* the like requests again, with room for two likes and two unlikes
SpecManyLikes == InitServing(MaxLikeRequests) /\ [][NextLikes]_vars

NextViews ==
  \/ \E p \in Procs : getVideoById(p)
  \/ \E p \in Procs : getVideoByIdFind(p)
  \/ \E p \in Procs : getVideoByIdInc(p)
  \/ \E p \in Procs : getVideoByIdComments(p)

SpecViews == InitServing(MaxRequests) /\ [][NextViews]_vars

NextList ==
  \/ \E p \in Procs : getVideos(p)
  \/ \E p \in Procs : getVideosFind(p)
  \/ \E p \in Procs : getVideosCount(p)

SpecList == InitServing(MaxRequests) /\ [][NextList]_vars

NextDelete ==
  \/ \E p \in Procs : deleteVideo(p)
  \/ \E p \in Procs : deleteVideoFind(p)
  \/ \E p \in Procs : deleteVideoComments(p)
  \/ \E p \in Procs : deleteVideoRecord(p)
  \/ \E p \in Procs : addComment(p)
  \/ \E p \in Procs : addCommentFind(p)
  \/ \E p \in Procs : addCommentSave(p)

SpecDelete == InitServing(MaxRequests) /\ [][NextDelete]_vars

NextGate ==
  \/ \E p \in Procs : uploadVideo(p)
  \/ \E p \in Procs : uploadVideoBlob(p)
  \/ \E p \in Procs : uploadThumbnail(p)
  \/ \E p \in Procs : uploadVideoSave(p)
  \/ \E p \in Procs : deleteVideo(p)
  \/ \E p \in Procs : deleteVideoFind(p)
  \/ \E p \in Procs : deleteVideoComments(p)
  \/ \E p \in Procs : deleteVideoRecord(p)
  \/ \E p \in Procs : getVideoStats(p)
  \/ \E p \in Procs : getVideoStatsAggregate(p)
  \/ \E p \in Procs : getVideoAnalytics(p)
  \/ \E p \in Procs : getVideoAnalyticsAggregate(p)
  \/ \E p \in Procs : likeVideo(p)
  \/ \E p \in Procs : likeVideoFind(p)
  \/ \E p \in Procs : likeVideoSave(p)

SpecGate == InitServing(MaxGateRequests) /\ [][NextGate]_vars

NextUpload ==
  \/ \E p \in Procs : uploadVideo(p)
  \/ \E p \in Procs : uploadVideoBlob(p)
  \/ \E p \in Procs : uploadThumbnail(p)
  \/ \E p \in Procs : uploadVideoSave(p)

SpecUpload == InitServing(MaxUploadRequests) /\ [][NextUpload]_vars

\* the database in service and one request body whose tags are validated
InitTags ==
  /\ users = <<Admin, Consumer("Ann", "a@x.io", "pw1")>>
  /\ videos = (1 :> SeedVideo(1, "approved", <<<<"m">>>>, <<>>))
  /\ comments = {}
  /\ blobs = {<<"videos", 1>>}
  /\ nextVideoId = 2
  /\ nextCommentId = 1
  /\ nextBlobId = 2
  /\ \E t \in TagCases :
       procs = [p \in Procs |->
                  IF p = 1
                  THEN Request("validateTags", "valid", FindUserById(1), 0,
                               [tags |-> t])
                  ELSE Idle]
  /\ response = NoResponse
  /\ budget = 0

NextTags == \E p \in Procs : validateTags(p)

SpecTags == InitTags /\ [][NextTags]_vars

NextUploadLike ==
  \/ \E p \in Procs : uploadVideo(p)
  \/ \E p \in Procs : uploadVideoBlob(p)
  \/ \E p \in Procs : uploadThumbnail(p)
  \/ \E p \in Procs : uploadVideoSave(p)
  \/ \E p \in Procs : likeVideo(p)
  \/ \E p \in Procs : likeVideoFind(p)
  \/ \E p \in Procs : likeVideoSave(p)

SpecUploadLike == InitServing(MaxUploadRequests) /\ [][NextUploadLike]_vars

NextViewsLikes ==
  \/ \E p \in Procs : getVideoById(p)
  \/ \E p \in Procs : getVideoByIdFind(p)
  \/ \E p \in Procs : getVideoByIdInc(p)
  \/ \E p \in Procs : getVideoByIdComments(p)
  \/ \E p \in Procs : likeVideo(p)
  \/ \E p \in Procs : likeVideoFind(p)
  \/ \E p \in Procs : likeVideoSave(p)

SpecViewsLikes == InitServing(MaxViewsLikesRequests) /\ [][NextViewsLikes]_vars

NextComments ==
  \/ \E p \in Procs : addComment(p)
  \/ \E p \in Procs : addCommentFind(p)
  \/ \E p \in Procs : addCommentSave(p)
  \/ \E p \in Procs : deleteComment(p)
  \/ \E p \in Procs : deleteCommentFind(p)
  \/ \E p \in Procs : deleteCommentRemove(p)

SpecComments == InitServing(MaxCommentRequests) /\ [][NextComments]_vars

(* ------------------------------ properties ---------------------------- *)
\* what the client receives of an answer
Body(resp) == [status |-> resp.status, error |-> resp.error, data |-> resp.data]

InSeq(x, seq) == \E i \in 1..Len(seq) : seq[i] = x

\* process p saves a toggled video that no other request overlaps: nothing
\* else is being served and the video is as it was loaded
LikeAlone(p) ==
  /\ At(p, "likeVideo", "save")
  /\ \A q \in Procs \ {p} : procs[q] = Idle
  /\ procs[p].vid \in DOMAIN videos
  /\ videos[procs[p].vid].v = procs[p].doc.v

\* C1: a likeVideo request that no other request overlaps moves the like
\* count by one, up when the user's id was absent from likedBy and down when
\* it was present, and afterwards the id is in likedBy if and only if it was
\* absent before (the request was a like); two such requests in a row so
\* return the count to its value.
ToggleLikeTwice ==
  [][\A p \in Procs :
       (LikeAlone(p) /\ procs'[p] = Idle) =>
         LET id == procs[p].vid
             u == procs[p].user.id
             wasLike == ~InSeq(u, videos[id].likedBy)
         IN /\ response'.status = 200
            /\ InSeq(u, videos'[id].likedBy) <=> wasLike
            /\ videos'[id].likes =
                 videos[id].likes + (IF wasLike THEN 1 ELSE -1)
            /\ response'.data.likes = videos'[id].likes]_vars

\* C2: in every reachable state the likes counter of every stored video is
\* the number of user ids in its likedBy.
LikesEqualLikedBy ==
  \A id \in DOMAIN videos : videos[id].likes = Len(videos[id].likedBy)

\* C3: getVideoById on a stored video whose status is pending answers 403 to
\* a consumer and 200, with the video and its comments, to an admin.
PendingVideoByRole ==
  (/\ response.op = "getVideoById"
   /\ response.doc # NoDoc
   /\ response.doc.status = "pending") =>
    /\ response.user.role = "consumer" => response.status = 403
    /\ response.user.role = "admin" =>
         /\ response.status = 200
         /\ response.data = [video |-> response.doc,
                             comments |-> CommentsOf(response.vid)]

\* a consumer has asked for the pending video and was refused
PendingRefusedToConsumer ==
  /\ response.op = "getVideoById"
  /\ response.doc # NoDoc
  /\ response.doc.status = "pending"
  /\ response.user.role = "consumer"
  /\ response.status = 403

\* C4: when deleteVideo answers 200 the video is no longer stored and no
\* stored comment refers to it.
DeletedVideoLeavesNoComment ==
  (response.op = "deleteVideo" /\ response.status = 200) =>
    /\ response.vid \notin DOMAIN videos
    /\ CommentsOf(response.vid) = {}

\* a step in which a register request is answered
RegisterAnswered ==
  /\ response'.op = "register"
  /\ \/ budget' # budget
     \/ \E p \in Procs : procs[p].op = "register" /\ procs'[p] = Idle

\* C5: a register request (name, email and password present) answered when
\* its email is already stored gets the 'User already exists' answer and
\* stores nothing; no two stored users have the same email.
SecondSignupConflict ==
  [][/\ (/\ RegisterAnswered
         /\ response'.arg.name # ""
         /\ response'.arg.password # ""
         /\ response'.arg.email # ""
         /\ FindOneByEmail(response'.arg.email) # 0) =>
           /\ Body(response') = Body(RegisterExistsReply(response'))
           /\ users' = users
     /\ \A i, j \in 1..Len(users') :
          users'[i].email = users'[j].email => i = j]_vars

\* the login request with the given credentials
LoginRequest(email, password) ==
  Request("login", "", NoUser, 0, [email |-> email, password |-> password])

\* C6: a login with an email that matches no stored user and a login with a
\* stored email and a wrong password receive the same status (401) and the
\* same body.
LoginFailuresIndistinguishable ==
  /\ \A e1, e2 \in (Emails \cup {"zed@x.io"}) \ {""},
        p1, p2 \in Passwords \ {""} :
       (/\ FindOneByEmail(e1) = 0
        /\ FindOneByEmail(e2) # 0
        /\ ~Compare(p2, users[FindOneByEmail(e2)].password)) =>
         /\ LoginReply(LoginRequest(e1, p1)).status = 401
         /\ Body(LoginReply(LoginRequest(e1, p1)))
              = Body(LoginReply(LoginRequest(e2, p2)))
  /\ (/\ response.op = "login"
      /\ response.arg.email # ""
      /\ response.arg.password # ""
      /\ \/ FindOneByEmail(response.arg.email) = 0
         \/ ~Compare(response.arg.password,
                     users[FindOneByEmail(response.arg.email)].password)) =>
       Body(response) = [status |-> 401, error |-> "Authentication failed",
                         data |-> [details |-> "Invalid email or password"]]

\* a login with a stored email and a wrong password has been answered 401
LoginWrongPasswordAnswered ==
  /\ response.op = "login"
  /\ response.status = 401
  /\ response.arg.password # ""
  /\ FindOneByEmail(response.arg.email) # 0

\* C7: a request without a token, with a token that fails verification, or
\* with a verified token whose subject is no stored user is answered 401 and
\* reaches no handler.
AuthenticateStopsRequest ==
  /\ \A p \in Procs :
       procs[p].op # "idle" => procs[p].tok = "valid" /\ procs[p].user # NoUser
  /\ (/\ response.op = "getVideoById"
      /\ response.tok \in {"none", "invalid"} \/ response.user = NoUser) =>
       response.status = 401

\* the endpoints behind authorizeRoles and the roles each is meant for
GatedFor(op) ==
  CASE op = "likeVideo" -> {"consumer"}
    [] op \in {"uploadVideo", "deleteVideo", "getVideoStats",
               "getVideoAnalytics"} -> {"admin"}
    [] OTHER -> {"consumer", "admin"}

\* C8: a request to a role-gated endpoint by an authenticated user whose role
\* is not the endpoint's is answered 403 in a step that changes no stored
\* user, video, comment or blob, and no such request is handed to a handler.
RoleGateForbids ==
  [][/\ (response'.op # "none" /\ response'.user # NoUser
         /\ response'.user.role \notin GatedFor(response'.op)) =>
          /\ response'.status = 403
          /\ store' = store
     /\ \A p \in Procs :
          (procs'[p].op # "idle" /\ procs'[p].user # NoUser) =>
            procs'[p].user.role \in GatedFor(procs'[p].op)]_vars

\* a gated request by a user of another role has been answered 403
ForbiddenRoleAnswered ==
  /\ response.op \in {"uploadVideo", "deleteVideo", "getVideoStats",
                      "getVideoAnalytics", "likeVideo"}
  /\ response.user # NoUser
  /\ response.user.role \notin GatedFor(response.op)
  /\ response.status = 403

\* the stored videos among ids that carry the tag (<<>> : any), as listed
ListedWith(ids, tag) ==
  {[id |-> i, status |-> videos[i].status] : i \in
     {j \in ids : tag = <<>> \/ InSeq(tag, videos[j].tags)}}

\* C9: getVideos finds, for a consumer, the approved videos only, whatever
\* tag and status the query string carries; for an admin, the videos of
\* every status when no status is given and those of the given status when
\* one is; and the found videos are the ones answered.
ListByRole ==
  [][/\ \A p \in Procs :
          (At(p, "getVideos", "find") /\ procs'[p].pc = "count") =>
            LET r == procs[p]
                found == procs'[p].doc.videos
                withStatus(s) == {i \in DOMAIN videos : videos[i].status = s}
            IN /\ r.user.role = "consumer" =>
                    found = ListedWith(withStatus("approved"), r.arg.tag)
               /\ (r.user.role = "admin" /\ r.arg.status = "") =>
                    found = ListedWith(DOMAIN videos, r.arg.tag)
               /\ (r.user.role = "admin" /\ r.arg.status # "") =>
                    found = ListedWith(withStatus(r.arg.status), r.arg.tag)
     /\ (response'.op = "getVideos" /\ response'.status = 200) =>
          /\ response'.data.videos = response'.doc.videos
          /\ response'.user.role = "consumer" =>
               \A v \in response'.data.videos : v.status = "approved"]_vars

\* a consumer who asked for pending videos has been answered approved ones
ConsumerListedApproved ==
  /\ response.op = "getVideos"
  /\ response.status = 200
  /\ response.user.role = "consumer"
  /\ response.arg.status = "pending"
  /\ response.data.videos # {}

\* C10: a getVideoById request on an approved video loads the video with its
\* stored views n, adds exactly 1 to the stored counter in one step that
\* writes nothing else, and answers 200 with the loaded video (views n); the
\* counter is written by no other step, so the next request loads n + 1.
ViewCountedOnce ==
  [][/\ \A p \in Procs :
          LET r == procs[p]
              r2 == procs'[p]
          IN /\ (At(p, "getVideoById", "find")
                 /\ r2.pc \in {"inc", "comments"}) =>
                  /\ r2.doc.views = videos[r.vid].views
                  /\ r2.pc = "inc" <=> r2.doc.status = "approved"
             /\ (At(p, "getVideoById", "inc") /\ r2.pc = "comments") =>
                  /\ DOMAIN videos' = DOMAIN videos
                  /\ videos'[r.vid].views = videos[r.vid].views + 1
                  /\ \A i \in DOMAIN videos \ {r.vid} : videos'[i] = videos[i]
             /\ (At(p, "getVideoById", "comments") /\ r2 = Idle) =>
                  /\ response'.status = 200
                  /\ response'.data.video.views = r.doc.views
     /\ videos' # videos =>
          \E p \in Procs : At(p, "getVideoById", "inc")
                           /\ procs'[p].pc = "comments"]_vars

\* a request that loaded the approved video after one earlier view has been
\* answered with views 1 and has left the stored counter at 2
SecondViewAnswered ==
  /\ response.op = "getVideoById"
  /\ response.status = 200
  /\ response.doc.status = "approved"
  /\ response.data.video.views = 1
  /\ videos[response.vid].views = 2

\* an upload request with a video file, no thumbnail file, and a title,
\* description and tags that the handler and the schema both accept
UploadWithoutThumbnail(r) ==
  /\ r.op = "uploadVideo"
  /\ r.arg.files = [video |-> TRUE, thumbnail |-> FALSE]
  /\ Len(Trim(r.arg.title)) >= MinTitle
  /\ Len(Trim(r.arg.description)) >= MinDescription

\* C11: an admin's upload with valid fields and a video file but no
\* thumbnail file, once the video blob is uploaded, goes on to the save
\* whether the derivation of a thumbnail succeeds or fails, and is answered
\* 201 with status approved and the thumbnail it reached (a blob, or null
\* after a failed derivation), the record being stored with that thumbnail.
ThumbnailFailureRecovered ==
  [][\A p \in Procs :
       LET r == procs[p]
       IN /\ (At(p, "uploadVideo", "thumbnail") /\ procs'[p] # r) =>
               /\ procs'[p].pc = "save"
               /\ procs'[p].doc.thumbnail = <<>>
                    \/ procs'[p].doc.thumbnail \in blobs'
          /\ (At(p, "uploadVideo", "save") /\ procs'[p] # r
              /\ UploadWithoutThumbnail(r)) =>
               /\ response'.status = 201
               /\ response'.data.status = "approved"
               /\ response'.data.thumbnail = r.doc.thumbnail
               /\ response'.vid \in DOMAIN videos' \ DOMAIN videos
               /\ videos'[response'.vid].thumbnail = r.doc.thumbnail
               /\ videos'[response'.vid].url = r.doc.url]_vars

\* an upload without a thumbnail file whose derivation failed has been
\* answered 201 with a null thumbnail, and its record is stored
UploadedWithoutThumbnail ==
  /\ UploadWithoutThumbnail(response)
  /\ response.status = 201
  /\ response.data.thumbnail = <<>>
  /\ response.vid \in DOMAIN videos
  /\ videos[response.vid].thumbnail = <<>>

\* C12: the tag validation accepts a tags input exactly when splitting (a
\* single string, on commas), trimming, lowercasing, dropping empty entries
\* and removing duplicates leaves between 1 and 10 tags, and answers 400 to
\* every other input.
TagsAcceptedByDistinctCount ==
  response.op = "validateTags" =>
    LET n == Len(Unique(SanitizedTags(response.arg.tags)))
    IN IF n >= 1 /\ n <= MaxTags
       THEN response.status = 200
       ELSE response.status = 400

\* a tag with no space at either end and no upper-case letter
NormalTag(t) ==
  /\ t # <<>>
  /\ t[1] # " " /\ t[Len(t)] # " "
  /\ \A i \in 1..Len(t) : t[i] \notin {"M", "R"}

\* tags that are normal and pairwise distinct
NormalTags(tags) ==
  /\ \A i \in 1..Len(tags) : NormalTag(tags[i])
  /\ \A i, j \in 1..Len(tags) : tags[i] = tags[j] => i = j

\* arrays of tags as a document may hold them before save
RawTagArrays ==
  UNION {[1..n -> TagStrings \ {<<>>, <<" ">>}] : n \in 1..3}

\* the normalization of save applied to any array of non-blank tags gives
\* normal, distinct tags and changes nothing when applied again, and it leaves
\* what the tag validation of the handler returns as it is
NormalizationIdempotent ==
  /\ \A v \in RawTagArrays :
       /\ NormalTags(PreSaveTags(v))
       /\ PreSaveTags(PreSaveTags(v)) = PreSaveTags(v)
  /\ \A t \in TagCases :
       TagsError(t) = "" =>
         PreSaveTags(validateAndSanitizeTags(t)) = validateAndSanitizeTags(t)

\* the stored tags of every video are normal and number 1 to 10
StoredTagsNormal(vs) ==
  \A id \in DOMAIN vs :
    /\ NormalTags(vs[id].tags)
    /\ Len(vs[id].tags) >= 1 /\ Len(vs[id].tags) <= MaxTags

\* C13: tag normalization (trim, lowercase, deduplicate) is idempotent; the
\* stored tags of a video are unchanged by every later save of it (the save
\* of a like toggle); and in every reachable state the stored tags of every
\* video are trimmed, lowercase, pairwise distinct and number 1 to 10.
TagsStayNormalized ==
  /\ StoredTagsNormal(videos)
  /\ [][/\ NormalizationIdempotent
        /\ StoredTagsNormal(videos')
        /\ \A id \in DOMAIN videos \cap DOMAIN videos' :
             videos'[id].tags = videos[id].tags]_vars

\* a like toggle has been saved on a video stored by an upload whose tags
\* input needed normalizing
LikeSavedOnUploaded ==
  /\ response.op = "likeVideo"
  /\ response.status = 200
  /\ response.vid \in DOMAIN videos
  /\ response.vid >= 3
  /\ videos[response.vid].tags = <<<<"m">>>>

\* C14: every user stored by register has role consumer, whatever role the
\* request body carries, and the user projection and the token of the 201
\* answer carry role consumer; the seeded admin is the only admin.
RegisterStoresConsumer ==
  /\ \A i \in 2..Len(users) : users[i].role = "consumer"
  /\ (response.op = "register" /\ response.status = 201) =>
       /\ response.data.role = "consumer"
       /\ response.data.token.role = "consumer"
       /\ users[response.data.id].role = "consumer"
       /\ users[response.data.id].email = response.arg.email

\* a signup whose body asked for role admin has been answered 201
AdminRoleSignupAnswered ==
  /\ response.op = "register"
  /\ response.status = 201
  /\ response.arg.role = "admin"

\* C15: when deleteVideo answers 200 (the blob store reporting no failure),
\* the blob behind the video's url and, when it has one, the blob behind its
\* thumbnail are no longer in the blob store, and the record is deleted.
DeletedVideoBlobsRemoved ==
  (response.op = "deleteVideo" /\ response.status = 200) =>
    /\ response.vid \notin DOMAIN videos
    /\ response.doc.url \notin blobs
    /\ response.doc.thumbnail # <<>> => response.doc.thumbnail \notin blobs

\* the processes whose getVideoById request increments video id in this step
Incrementing(id) ==
  {p \in Procs : /\ At(p, "getVideoById", "inc")
                 /\ procs[p].vid = id
                 /\ procs'[p].pc = "comments"}

\* C16: under every interleaving of getVideoById and likeVideo requests, the
\* stored views of a video change only by the increment of a getVideoById
\* request on it, by exactly 1 whatever the request loaded (no update is
\* lost); every request on an approved video that is not refused passes that
\* increment once and is then answered 200; a request answered 400, 403 or
\* 404 and a read of a non-approved video pass no increment; and the save of
\* a like toggle changes likes, likedBy and the version only.
ViewsCountReads ==
  [][/\ DOMAIN videos' = DOMAIN videos
     /\ \A id \in DOMAIN videos :
          videos'[id].views = videos[id].views + Cardinality(Incrementing(id))
     /\ \A p \in Procs :
          LET r == procs[p]
              r2 == procs'[p]
          IN /\ (At(p, "getVideoById", "find") /\ r2.pc = "inc") =>
                  r2.doc.status = "approved"
             /\ (At(p, "getVideoById", "find") /\ r2.pc = "comments") =>
                  r2.doc.status # "approved"
             /\ (r.op = "getVideoById" /\ r.pc \in {"inc", "comments"}
                 /\ r2 = Idle) =>
                  /\ r.pc = "comments"
                  /\ response'.status = 200
             /\ (r.op = "getVideoById" /\ r.pc \in {"start", "find"}
                 /\ r2 = Idle) =>
                  response'.status \in {400, 403, 404, 500}
             /\ (At(p, "likeVideo", "save") /\ r2 = Idle) =>
                  videos' = [videos EXCEPT ![r.vid] =
                               [@ EXCEPT !.likes = videos'[r.vid].likes,
                                         !.likedBy = videos'[r.vid].likedBy,
                                         !.v = videos'[r.vid].v]]]_vars

\* two requests that both loaded the approved video with views 0 have both
\* incremented it
TwoConcurrentReadsCounted ==
  /\ \A p \in 1..2 :
       /\ At(p, "getVideoById", "comments")
       /\ procs[p].vid = 1
       /\ procs[p].doc.views = 0
  /\ videos[1].views = 2

\* C17: a step of deleteComment removes a stored comment only when the
\* caller is the comment's author or an admin, and removes that comment
\* only; a caller who is neither is answered 403 and a request for a comment
\* that is not stored is answered 404, in steps that remove no comment; no
\* other step of the comment handlers removes a comment.
DeleteCommentByAuthorOrAdmin ==
  [][/\ \A c \in comments \ comments' :
          \E p \in Procs :
            /\ At(p, "deleteComment", "remove")
            /\ procs'[p] = Idle
            /\ procs[p].doc.id = c.id
            /\ procs[p].user.id = c.user \/ procs[p].user.role = "admin"
            /\ comments \ comments' = {c}
     /\ \A p \in Procs :
          (At(p, "deleteComment", "find") /\ procs'[p] # procs[p]) =>
            LET id == procs[p].arg.commentId
                u == procs[p].user
                stored == {c \in comments : c.id = id}
            IN /\ comments' = comments
               /\ (id # BadId /\ stored = {}) => response'.status = 404
               /\ \A c \in stored :
                    (c.user # u.id /\ u.role # "admin") =>
                      response'.status = 403]_vars

\* a consumer who is not the author of a stored comment has been answered
\* 403, and the comment is still stored
DeleteCommentRefused ==
  /\ response.op = "deleteComment"
  /\ response.status = 403
  /\ response.user.role = "consumer"
  /\ response.doc \in comments
  /\ response.doc.user # response.user.id

\* C18: every stored comment's video is a stored video.
CommentsReferToStoredVideos ==
  \A c \in comments : c.video \in DOMAIN videos

\* C19: the likes counter of every stored video is at least zero.
LikesNeverNegative ==
  \A id \in DOMAIN videos : videos[id].likes >= 0

\* C20: an upload request whose title, description or tags the handler
\* refuses is answered 400 in a step that uploads no blob, and the save of
\* an upload request, which the handler's checks have let through and whose
\* video blob is uploaded, stores a record whose url names that blob and is
\* answered 201.
UploadedBlobHasRecord ==
  [][/\ (response'.op = "uploadVideo" /\ response'.status = 400
         /\ budget' # budget) => blobs' = blobs
     /\ \A p \in Procs :
          (At(p, "uploadVideo", "save") /\ procs'[p] # procs[p]) =>
            /\ procs[p].doc.url \in blobs
            /\ response'.status = 201
            /\ \E id \in DOMAIN videos' \ DOMAIN videos :
                 videos'[id].url = procs[p].doc.url]_vars

====
